---- MODULE Spec2Model ----
(***************************************************************************)
(* Model of src/ibus-sys/wrapper.c: the IBus engine wrapper of Dikt.       *)
(*                                                                         *)
(* State = the file-scope statics of wrapper.c plus a mock of the IBus     *)
(* framework (bus / factory objects, their reference releases, the         *)
(* connectivity of every bus, the number of ibus_init() calls).            *)
(* Every exported function and every engine virtual method is one action.  *)
(* The framework calls an operation issues are recorded, in order, in      *)
(* `calls'; the host callbacks it invokes are recorded in `invoked'.       *)
(***************************************************************************)
EXTENDS Integers, Sequences, FiniteSets, TLC

\* ------------------------------------------------------------------ bounds
MaxBus      == 3   \* bus objects ibus_bus_new() may hand out in one run
MaxInit     == 3   \* calls of ibus_dikt_init in one run
MaxCtx      == 2   \* distinct host contexts
MaxFn       == 1   \* distinct host functions per callback slot
MaxEngine   == 2   \* engine instances the framework creates
MaxProcBus  == 2   \* bus objects handed out in a run of SpecProc
MaxRaceInstall == 2  \* ibus_dikt_set_callback calls in a run of SpecRace

\* ------------------------------------------------------- program constants
NULL == 0
IBUS_BUS_NAME_REQUESTED_PRIMARY  == 1
IBUS_BUS_NAME_REQUESTED_REPLACED == 2

\* A `const gchar *' is either the null pointer or a string.
NullName     == [null |-> TRUE,  chars |-> ""]
Str(s)       == [null |-> FALSE, chars |-> s]
strlen(name) == Len(name.chars)

Buses     == 1..MaxBus
Factories == 1..MaxBus
Ctxs      == 1..MaxCtx
Fns       == 1..MaxFn
Engines   == 1..MaxEngine

\* Arguments of process_key_event: <<keyval, keycode, modifiers>>.
KeyEvents == {<<32, 57, 0>>, <<65, 38, 0>>, <<0, 0, 0>>}

\* Engine names a caller passes to the control surface.
EngineNames == {NullName, Str(""), Str("dikt")}

\* One framework call: function, object it is applied to, first string
\* argument, the string arguments after it, and result (a handle, a gboolean
\* as 1/0, a guint; 0 for void functions).
CallMore(fn, obj, arg, more, res) ==
  [fn |-> fn, obj |-> obj, arg |-> arg, more |-> more, res |-> res]

Call(fn, obj, arg, res) == CallMore(fn, obj, arg, <<>>, res)

\* The build-time version string embedded into the component descriptor.
DIKT_VERSION == "unknown"

\* C truth value of a gboolean.
gboolean(p) == IF p THEN 1 ELSE 0

VARIABLES
  \* wrapper.c:14-22
  global_context, global_key_event_cb, global_focus_in_cb,
  global_focus_out_cb, global_reset_cb, global_enable_cb, global_disable_cb,
  global_bus, global_factory,
  \* wrapper.c:228-229
  daemon_ibus_initialized, daemon_cached_bus,
  \* framework mock
  bus_count,       \* buses created so far; their handles are 1..bus_count
  bus_connected,   \* [Buses -> BOOLEAN]  ibus_bus_is_connected
  bus_unrefs,      \* [Buses -> Nat]      g_object_unref calls on the bus
  bus_owner,       \* [Buses -> {"none","init","daemon"}] creating function
  bus_signal,      \* [Buses -> BOOLEAN]  "disconnected" handler connected
  bus_checked,     \* [Buses -> {-1, 0, 1}] last answer of ibus_bus_is_connected
  factory_count,   \* factories created so far
  factory_unrefs,  \* [Factories -> Nat]
  factory_bus,     \* [Factories -> Buses \cup {NULL}] bus whose transport it uses
  ibus_init_calls, \* number of ibus_init() calls
  quit_requested,  \* ibus_quit() was called
  \* observation of the last operation
  op, arg, ret, calls, invoked,
  cleanup_streak,  \* consecutive ibus_dikt_cleanup calls just made (0, 1, 2+)
  init_calls,      \* number of ibus_dikt_init calls
  \* the two threads of SpecRace: the stores an ibus_dikt_set_callback call
  \* still has to make, and the position and registers of a key-event dispatch
  race

cbt_vars == <<global_context, global_key_event_cb, global_focus_in_cb,
              global_focus_out_cb, global_reset_cb, global_enable_cb,
              global_disable_cb>>
bfl_vars == <<global_bus, global_factory>>
dbc_vars == <<daemon_ibus_initialized, daemon_cached_bus>>
bus_vars == <<bus_count, bus_connected, bus_unrefs, bus_owner, bus_signal,
              bus_checked>>
fac_vars == <<factory_count, factory_unrefs, factory_bus>>
env_vars == <<bus_vars, fac_vars, ibus_init_calls, quit_requested>>
obs_vars == <<op, arg, ret, calls, invoked, cleanup_streak, init_calls>>
vars     == <<cbt_vars, bfl_vars, dbc_vars, env_vars, obs_vars, race>>

\* No call of either thread in progress, no install made yet.
RaceIdle ==
  [i_todo    |-> {},          \* stores of the running install not yet made
   i_args    |-> <<>>,        \* its seven arguments
   gen       |-> 0,           \* ibus_dikt_set_callback calls made so far
   cell_gen  |-> [k \in 1..7 |-> 0],  \* the call that last wrote each cell
   last      |-> <<NULL, NULL, NULL, NULL, NULL, NULL, NULL>>,
                              \* arguments of the last completed call
   d_pc      |-> 0,           \* position of the dispatch (0: not running)
   d_arg     |-> <<>>,        \* its engine and key event
   d_cb      |-> NULL,        \* the callback pointer it loaded
   d_ctx     |-> NULL,        \* the context pointer it loaded
   d_gcb     |-> 0,           \* the call that wrote the callback it loaded
   d_gctx    |-> 0,           \* the call that wrote the context it loaded
   d_overlap |-> FALSE,       \* an install ran while the dispatch did
   d_crash   |-> FALSE]       \* the dispatch called through a NULL pointer

Init ==
  /\ global_context = NULL
  /\ global_key_event_cb = NULL
  /\ global_focus_in_cb = NULL
  /\ global_focus_out_cb = NULL
  /\ global_reset_cb = NULL
  /\ global_enable_cb = NULL
  /\ global_disable_cb = NULL
  /\ global_bus = NULL
  /\ global_factory = NULL
  /\ daemon_ibus_initialized = 0
  /\ daemon_cached_bus = NULL
  /\ bus_count = 0
  /\ bus_connected = [b \in Buses |-> FALSE]
  /\ bus_unrefs = [b \in Buses |-> 0]
  /\ bus_owner = [b \in Buses |-> "none"]
  /\ bus_signal = [b \in Buses |-> FALSE]
  /\ bus_checked = [b \in Buses |-> -1]
  /\ factory_count = 0
  /\ factory_unrefs = [f \in Factories |-> 0]
  /\ factory_bus = [f \in Factories |-> NULL]
  /\ ibus_init_calls = 0
  /\ quit_requested = FALSE
  /\ op = "start"
  /\ cleanup_streak = 0
  /\ arg = NullName
  /\ ret = "void"
  /\ calls = <<>>
  /\ invoked = <<>>
  /\ init_calls = 0
  /\ race = RaceIdle

\* The observation variables after an operation `o' with argument `a',
\* result `r', framework calls `cs' and host callback invocations `iv'.  The
\* operation runs to completion in this one step: no thread is left inside
\* a call.
Observe(o, a, r, cs, iv) ==
  /\ op' = o
  /\ cleanup_streak' = IF o = "cleanup"
                         THEN (IF cleanup_streak < 2 THEN cleanup_streak + 1 ELSE 2)
                         ELSE 0
  /\ arg' = a
  /\ ret' = r
  /\ calls' = cs
  /\ invoked' = iv
  /\ UNCHANGED race

\* ------------------------------------------------ callback table (CBT)

\* The host's key_event callback `cb' applied to a key event: callback 1
\* consumes the space key only, any other callback consumes every key.
HostKeyEvent(cb, keyval, keycode, modifiers) ==
  IF cb = 1 THEN keyval = 32 ELSE TRUE

\* Variant of SlotFires that tests the slot only.
SlotFires_slot_only(cb, ctx) == cb # NULL

\* The guard of every engine virtual method: `if (global_X_cb && global_context)'.
SlotFires(cb, ctx) == cb # NULL /\ ctx # NULL

\* One host callback invocation.
Invocation(slot, cb, ctx, engine, args) ==
  [slot |-> slot, cb |-> cb, ctx |-> ctx, engine |-> engine, args |-> args]

ibus_dikt_set_callback(ctx, key_event_cb, focus_in_cb, focus_out_cb, reset_cb, enable_cb, disable_cb) ==
  /\ global_context' = ctx
  /\ global_key_event_cb' = key_event_cb
  /\ global_focus_in_cb' = focus_in_cb
  /\ global_focus_out_cb' = focus_out_cb
  /\ global_reset_cb' = reset_cb
  /\ global_enable_cb' = enable_cb
  /\ global_disable_cb' = disable_cb
  /\ Observe("set_callback", NullName, "void", <<>>, <<>>)
  /\ UNCHANGED <<bfl_vars, dbc_vars, env_vars, init_calls>>

\* The arguments an engine virtual method was called with.
EventArg(engine, args) == [engine |-> engine, args |-> args]

\* Variant of key_event_args that passes the keycode in place of the keyval.
key_event_args_swapped(keyval, keycode, modifiers) ==
  <<keycode, keyval, modifiers>>

\* The event arguments handed to the callback:
\* `global_key_event_cb(global_context, engine, keyval, keycode, modifiers)'.
key_event_args(keyval, keycode, modifiers) == <<keyval, keycode, modifiers>>

ibus_dikt_engine_process_key_event(engine, keyval, keycode, modifiers) ==
  LET passed == key_event_args(keyval, keycode, modifiers)
  IN
  /\ IF SlotFires(global_key_event_cb, global_context)
       THEN Observe("process_key_event",
                    EventArg(engine, <<keyval, keycode, modifiers>>),
                    HostKeyEvent(global_key_event_cb,
                                 passed[1], passed[2], passed[3]),
                    <<>>,
                    <<Invocation("key_event", global_key_event_cb, global_context,
                                 engine, passed)>>)
       ELSE Observe("process_key_event",
                    EventArg(engine, <<keyval, keycode, modifiers>>),
                    FALSE, <<>>, <<>>)
  /\ UNCHANGED <<cbt_vars, bfl_vars, dbc_vars, env_vars, init_calls>>

\* The body shared by the five void virtual methods.
VoidDispatch(slot, cb, engine) ==
  /\ IF SlotFires(cb, global_context)
       THEN Observe(slot, EventArg(engine, <<>>), "void", <<>>,
                    <<Invocation(slot, cb, global_context, engine, <<>>)>>)
       ELSE Observe(slot, EventArg(engine, <<>>), "void", <<>>, <<>>)
  /\ UNCHANGED <<cbt_vars, bfl_vars, dbc_vars, env_vars, init_calls>>

ibus_dikt_engine_focus_in(engine)  == VoidDispatch("focus_in", global_focus_in_cb, engine)
ibus_dikt_engine_focus_out(engine) == VoidDispatch("focus_out", global_focus_out_cb, engine)
ibus_dikt_engine_reset(engine)     == VoidDispatch("reset", global_reset_cb, engine)
ibus_dikt_engine_enable(engine)    == VoidDispatch("enable", global_enable_cb, engine)
ibus_dikt_engine_disable(engine)   == VoidDispatch("disable", global_disable_cb, engine)

\* The host installs a context (or none) and, for any subset of the six
\* slots, the functions of one of its callback implementations.
Slots == {"key_event", "focus_in", "focus_out", "reset", "enable", "disable"}

Install ==
  \E ctx \in Ctxs \cup {NULL} : \E h \in Fns : \E set \in SUBSET Slots :
    LET fn(slot) == IF slot \in set THEN h ELSE NULL
    IN  ibus_dikt_set_callback(ctx, fn("key_event"), fn("focus_in"),
                               fn("focus_out"), fn("reset"), fn("enable"),
                               fn("disable"))

KeyEvent ==
  \E engine \in Engines : \E ev \in KeyEvents :
    ibus_dikt_engine_process_key_event(engine, ev[1], ev[2], ev[3])

FocusIn  == \E engine \in Engines : ibus_dikt_engine_focus_in(engine)
FocusOut == \E engine \in Engines : ibus_dikt_engine_focus_out(engine)
Reset    == \E engine \in Engines : ibus_dikt_engine_reset(engine)
Enable   == \E engine \in Engines : ibus_dikt_engine_enable(engine)
Disable  == \E engine \in Engines : ibus_dikt_engine_disable(engine)

\* ------------------------------------------- bus/factory lifecycle (BFL)

\* The bus created by the n-th successful ibus_bus_new() is handle n.
NewBus(b, connected, owner) ==
  /\ bus_count' = b
  /\ bus_connected' = [bus_connected EXCEPT ![b] = connected]
  /\ bus_owner' = [bus_owner EXCEPT ![b] = owner]

\* g_object_unref on each bus of the sequence `bs', in order.
RECURSIVE UnrefAll(_, _)
UnrefAll(unrefs, bs) ==
  IF bs = <<>> THEN unrefs
  ELSE UnrefAll([unrefs EXCEPT ![Head(bs)] = @ + 1], Tail(bs))

\* Variant of init_code that looks up the transport before it checks the
\* connectivity.
init_code_transport_first(b, connected, conn, f) ==
  IF b = NULL THEN 1
  ELSE IF conn = NULL THEN 3
  ELSE IF ~connected THEN 2
  ELSE IF f = NULL THEN 4
  ELSE 0

\* The return statements of ibus_dikt_init: b is the pointer returned by
\* ibus_bus_new, connected the result of ibus_bus_is_connected, conn the
\* pointer returned by ibus_bus_get_connection, f by ibus_factory_new.
init_code(b, connected, conn, f) ==
  IF b = NULL THEN 1
  ELSE IF ~connected THEN 2
  ELSE IF conn = NULL THEN 3
  ELSE IF f = NULL THEN 4
  ELSE 0

\* Variant of name_request_warns that accepts PRIMARY only.
name_request_warns_unless_primary(result) ==
  result # IBUS_BUS_NAME_REQUESTED_PRIMARY

\* The `if (result != PRIMARY && result != REPLACED)' test of the name request.
name_request_warns(result) ==
  /\ result # IBUS_BUS_NAME_REQUESTED_PRIMARY
  /\ result # IBUS_BUS_NAME_REQUESTED_REPLACED

\* Results ibus_bus_request_name may return.
NameResults == {0, 1, 2, 3}

\* Variant of init_global_bus that publishes the bus before the factory is
\* created.
init_global_bus_early(code, b, old) == IF code \in {0, 4} THEN b ELSE old

\* `global_bus = bus' is reached by a call that returns 0 only: the value of
\* global_bus after a call that returns `code', and likewise global_factory.
init_global_bus(code, b, old) == IF code = 0 THEN b ELSE old

init_global_factory(code, f, old) == IF code = 0 THEN f ELSE old

\* Variant of init_releases_bus without the release on a factory failure.
init_releases_bus_not_on_4(code) == code \in {2, 3}

\* The failure returns that are preceded by `g_object_unref(bus)'.
init_releases_bus(code) == code \in {2, 3, 4}

\* Variant of init_requests_name with the branches exchanged.
init_requests_name_inverted(ibus_mode) == ~ibus_mode

\* `if (ibus_mode)': the branch that requests the bus name.
init_requests_name(ibus_mode) == ibus_mode

\* Variant of init_success_order that publishes the handles after the mode
\* branch.
init_success_order_publish_last(t_sig, t_add, t_pub, t_mode) ==
  t_sig \o t_add \o t_mode \o t_pub

\* Lines 160-188 in program order: signal subscription, engine registration,
\* publication of the handles, mode branch.
init_success_order(t_sig, t_add, t_pub, t_mode) ==
  t_sig \o t_add \o t_pub \o t_mode

\* The framework calls of ibus_dikt_init, in program order, for a call that
\* returns `code'; the two stores that publish the handles are listed among
\* them as "global_bus =" and "global_factory =".
init_trace(code, ibus_mode, b, connected, conn, f, name_result) ==
  LET t_new   == <<Call("ibus_init", NULL, "", 0),
                   Call("ibus_bus_new", NULL, "", b)>>
      t_conn  == <<Call("ibus_bus_is_connected", b, "", gboolean(connected))>>
      t_get   == <<Call("ibus_bus_get_connection", b, "", conn)>>
      t_fac   == <<Call("ibus_factory_new", conn, "", f)>>
      t_unref == <<Call("g_object_unref(bus)", b, "", 0)>>
      t_err(m) == <<Call("fprintf(stderr)", NULL, m, 0)>>
      t_sig   == <<Call("g_signal_connect", b, "disconnected", 0)>>
      t_add   == <<Call("ibus_factory_add_engine", f, "dikt", 0)>>
      t_pub   == <<Call("global_bus =", b, "", 0),
                   Call("global_factory =", f, "", 0)>>
      t_name  == <<Call("ibus_bus_request_name", b,
                        "org.freedesktop.IBus.Dikt", name_result)>>
                 \o (IF name_request_warns(name_result)
                       THEN t_err("Warning: Failed to acquire IBus name")
                       ELSE <<>>)
      t_comp  == <<CallMore("ibus_component_new", NULL,
                            "org.freedesktop.IBus.Dikt",
                            <<"Dikt Speech-to-Text", DIKT_VERSION, "MIT",
                              "Dikt Team",
                              "https://github.com/rohithmahesh3/Dikt", "",
                              "dikt-ibus">>, 1),
                   CallMore("ibus_engine_desc_new", NULL, "dikt",
                            <<"Dikt", "Dikt speech-to-text dictation", "other",
                              "MIT", "Dikt Team", "dikt", "default">>, 1),
                   Call("ibus_component_add_engine", 1, "dikt", 0),
                   Call("ibus_bus_register_component", b,
                        "org.freedesktop.IBus.Dikt", 0),
                   Call("g_object_unref(component)", 1, "", 0)>>
  IN CASE code = 1 -> t_new \o t_err("Failed to create IBus bus")
       [] code = 2 -> t_new \o t_conn \o t_err("IBus daemon not running")
                        \o (IF init_releases_bus(code) THEN t_unref ELSE <<>>)
       [] code = 3 -> t_new \o t_conn \o t_get
                        \o t_err("IBus bus has no connection")
                        \o (IF init_releases_bus(code) THEN t_unref ELSE <<>>)
       [] code = 4 -> t_new \o t_conn \o t_get \o t_fac
                        \o t_err("Failed to create IBus factory")
                        \o (IF init_releases_bus(code) THEN t_unref ELSE <<>>)
       [] OTHER    -> t_new \o t_conn \o t_get \o t_fac
                        \o init_success_order(
                             t_sig, t_add, t_pub,
                             IF init_requests_name(ibus_mode) THEN t_name
                                                              ELSE t_comp)

\* The argument of one init call.
InitArg(ibus_mode) == [ibus_mode |-> ibus_mode]

ibus_dikt_init(ibus_mode, new_ok, connected, has_conn, factory_ok, name_result) ==
  LET b    == IF new_ok THEN bus_count + 1 ELSE NULL
      conn == IF has_conn THEN b ELSE NULL
      f    == IF factory_ok THEN factory_count + 1 ELSE NULL
      code == init_code(b, connected, conn, f)
  IN
  /\ bus_count < MaxBus
  /\ init_calls < MaxInit
  /\ init_calls' = init_calls + 1
  /\ ibus_init_calls' = ibus_init_calls + 1
  /\ IF b # NULL
       THEN NewBus(b, connected, "init")
       ELSE UNCHANGED <<bus_count, bus_connected, bus_owner>>
  /\ bus_checked' = IF b # NULL
                      THEN [bus_checked EXCEPT ![b] = gboolean(connected)]
                      ELSE bus_checked
  /\ bus_unrefs' = IF init_releases_bus(code) THEN UnrefAll(bus_unrefs, <<b>>)
                                              ELSE bus_unrefs
  /\ IF code = 0
       THEN /\ factory_count' = f
            /\ factory_bus' = [factory_bus EXCEPT ![f] = b]
            /\ bus_signal' = [bus_signal EXCEPT ![b] = TRUE]
       ELSE UNCHANGED <<factory_count, factory_bus, bus_signal>>
  /\ global_bus' = init_global_bus(code, b, global_bus)
  /\ global_factory' = init_global_factory(code, f, global_factory)
  /\ Observe("init", InitArg(ibus_mode), code,
             init_trace(code, ibus_mode, b, connected, conn, f, name_result),
             <<>>)
  /\ UNCHANGED <<cbt_vars, dbc_vars, factory_unrefs, quit_requested>>

\* Variant of cleanup_clear that leaves the released pointer in place.
cleanup_clear_omitted(p) == p

\* `if (p) { g_object_unref(p); p = NULL; }': the value of p afterwards.
cleanup_clear(p) == IF p # NULL THEN NULL ELSE p

\* Variant of cleanup_releases without the null test.
cleanup_releases_unguarded(p) == TRUE

\* `if (p) { g_object_unref(p); ... }': whether p is released.
cleanup_releases(p) == p # NULL

ibus_dikt_cleanup ==
  /\ factory_unrefs' = IF cleanup_releases(global_factory)
                         THEN [factory_unrefs EXCEPT ![global_factory] = @ + 1]
                         ELSE factory_unrefs
  /\ global_factory' = cleanup_clear(global_factory)
  /\ bus_unrefs' = IF cleanup_releases(global_bus)
                     THEN UnrefAll(bus_unrefs, <<global_bus>>)
                     ELSE bus_unrefs
  /\ global_bus' = cleanup_clear(global_bus)
  /\ Observe("cleanup", NullName, "void",
             (IF cleanup_releases(global_factory)
                THEN <<Call("g_object_unref(factory)", global_factory, "", 0)>>
                ELSE <<>>)
             \o (IF cleanup_releases(global_bus)
                   THEN <<Call("g_object_unref(bus)", global_bus, "", 0)>>
                   ELSE <<>>),
             <<>>)
  /\ UNCHANGED <<cbt_vars, dbc_vars, bus_count, bus_connected, bus_owner,
                 bus_signal, bus_checked, factory_count, factory_bus,
                 ibus_init_calls, quit_requested, init_calls>>

\* ibus_bus_is_connected on a handle of the mock, and the record of its
\* answer when the handle is queried.
ibus_bus_is_connected(b) == bus_connected[b]

Checked(b) == [bus_checked EXCEPT ![b] = gboolean(ibus_bus_is_connected(b))]

rest_vars == <<bus_count, bus_connected, bus_unrefs, bus_owner, bus_signal,
               fac_vars, ibus_init_calls, quit_requested, init_calls>>

\* The operands of `!global_bus || !engine_name || !ibus_bus_is_connected(..)'
\* that are evaluated before the connectivity of the bus is queried.
set_global_engine_queries(b, engine_name) == b # NULL /\ ~engine_name.null

\* Variant of set_global_engine_forwards without the connectivity test.
set_global_engine_forwards_unchecked(b, engine_name) ==
  b # NULL /\ ~engine_name.null

\* Whether ibus_dikt_set_global_engine forwards to the framework.
set_global_engine_forwards(b, engine_name) ==
  /\ set_global_engine_queries(b, engine_name)
  /\ ibus_bus_is_connected(b)

\* set_result: what ibus_bus_set_global_engine answers if it is called.
ibus_dikt_set_global_engine(engine_name, set_result) ==
  /\ Observe("set_global_engine", engine_name,
             IF set_global_engine_forwards(global_bus, engine_name)
               THEN set_result ELSE FALSE,
             (IF set_global_engine_queries(global_bus, engine_name)
                THEN <<Call("ibus_bus_is_connected", global_bus, "",
                            gboolean(ibus_bus_is_connected(global_bus)))>>
                ELSE <<>>)
             \o (IF set_global_engine_forwards(global_bus, engine_name)
                   THEN <<Call("ibus_bus_set_global_engine", global_bus,
                               engine_name.chars, gboolean(set_result))>>
                   ELSE <<>>),
             <<>>)
  /\ bus_checked' = IF set_global_engine_queries(global_bus, engine_name)
                      THEN Checked(global_bus) ELSE bus_checked
  /\ UNCHANGED <<cbt_vars, bfl_vars, dbc_vars, rest_vars>>

\* An IBusEngineDesc pointer returned by ibus_bus_get_global_engine: null, or
\* a descriptor whose name is null or a string.
NullDesc   == [null |-> TRUE,  name |-> NullName]
Desc(name) == [null |-> FALSE, name |-> name]
Descs      == {NullDesc, Desc(NullName), Desc(Str("xkb:us::eng"))}

\* Lines 217-225 and 281-289: the string returned for the descriptor `desc'
\* (`name ? g_strdup(name) : NULL'), and the framework calls made on the way.
desc_name(desc) == IF desc.null THEN NullName ELSE desc.name

desc_trace(b, desc) ==
  <<Call("ibus_bus_get_global_engine", b, "", gboolean(~desc.null))>>
  \o (IF desc.null THEN <<>>
      ELSE <<Call("ibus_engine_desc_get_name", 1, desc.name.chars,
                  gboolean(~desc.name.null))>>
           \o (IF desc.name.null THEN <<>>
               ELSE <<Call("g_strdup", NULL, desc.name.chars, 1)>>)
           \o <<Call("g_object_unref(desc)", 1, "", 0)>>)

\* Whether ibus_dikt_get_global_engine_name forwards to the framework.
get_global_engine_forwards(b) == b # NULL /\ ibus_bus_is_connected(b)

ibus_dikt_get_global_engine_name(desc) ==
  /\ Observe("get_global_engine_name", NullName,
             IF get_global_engine_forwards(global_bus)
               THEN desc_name(desc) ELSE NullName,
             (IF global_bus # NULL
                THEN <<Call("ibus_bus_is_connected", global_bus, "",
                            gboolean(ibus_bus_is_connected(global_bus)))>>
                ELSE <<>>)
             \o (IF get_global_engine_forwards(global_bus)
                   THEN desc_trace(global_bus, desc) ELSE <<>>),
             <<>>)
  /\ bus_checked' = IF global_bus # NULL THEN Checked(global_bus)
                                         ELSE bus_checked
  /\ UNCHANGED <<cbt_vars, bfl_vars, dbc_vars, rest_vars>>

\* The "disconnected" signal handler.
ibus_disconnected_cb == <<Call("ibus_quit", NULL, "", 0)>>

\* The framework sees the connection of a live bus drop and emits
\* "disconnected" to the handlers connected to that bus.
bus_disconnected(b) ==
  /\ b \in 1..bus_count
  /\ bus_connected[b]
  /\ bus_unrefs[b] = 0
  /\ bus_connected' = [bus_connected EXCEPT ![b] = FALSE]
  /\ quit_requested' = (quit_requested \/ bus_signal[b])
  /\ Observe("disconnected", NullName, "void",
             IF bus_signal[b] THEN ibus_disconnected_cb ELSE <<>>, <<>>)
  /\ UNCHANGED <<cbt_vars, bfl_vars, dbc_vars, bus_count, bus_unrefs,
                 bus_owner, bus_signal, bus_checked, fac_vars,
                 ibus_init_calls, init_calls>>

\* ------------------------------------------------ daemon bus cache (DBC)

\* Variant of g_once_init_enter that lets every caller in.
g_once_init_enter_always(latch) == TRUE

\* g_once_init_enter(&daemon_ibus_initialized): true for the first caller only.
g_once_init_enter(latch) == latch = 0

\* Variant of daemon_cache_hit with the connectivity test inverted.
daemon_cache_hit_inverted(cached) == cached # NULL /\ ~bus_connected[cached]

\* `daemon_cached_bus && ibus_bus_is_connected(daemon_cached_bus)'
daemon_cache_hit(cached) == cached # NULL /\ ibus_bus_is_connected(cached)

\* Variant of daemon_stale that drops the stale handle without releasing it.
daemon_stale_dropped(cached) == <<>>

\* `if (daemon_cached_bus) { g_object_unref(daemon_cached_bus); ... }' on a
\* miss: the handles released before a new bus is created.
daemon_stale(cached) == IF cached # NULL THEN <<cached>> ELSE <<>>

\* Variant of daemon_new_bus_rejected that accepts a disconnected bus.
daemon_new_bus_rejected_null_only(nb, connected) == nb = NULL

\* `!daemon_cached_bus || !ibus_bus_is_connected(daemon_cached_bus)' on the
\* pointer just returned by ibus_bus_new.
daemon_new_bus_rejected(nb, connected) == nb = NULL \/ ~connected

\* ibus_dikt_daemon_get_bus, where the framework answers a bus creation with
\* a bus (new_ok) that is connected or not.  The result names the bus
\* returned, the cache afterwards and every effect on the framework.
ibus_dikt_daemon_get_bus(new_ok, connected) ==
  LET cached   == daemon_cached_bus
      once     == g_once_init_enter(daemon_ibus_initialized)
      hit      == daemon_cache_hit(cached)
      nb       == IF new_ok THEN bus_count + 1 ELSE NULL
      rejected == daemon_new_bus_rejected(nb, connected)
      t_init   == IF once THEN <<Call("ibus_init", NULL, "", 0)>> ELSE <<>>
      t_check  == IF cached # NULL
                    THEN <<Call("ibus_bus_is_connected", cached, "",
                                gboolean(ibus_bus_is_connected(cached)))>>
                    ELSE <<>>
      t_stale  == [i \in 1..Len(daemon_stale(cached)) |->
                     Call("g_object_unref(bus)", daemon_stale(cached)[i], "", 0)]
      t_new    == <<Call("ibus_bus_new", NULL, "", nb)>>
                  \o (IF nb # NULL
                        THEN <<Call("ibus_bus_is_connected", nb, "",
                                    gboolean(connected))>>
                        ELSE <<>>)
      t_drop   == IF rejected /\ nb # NULL
                    THEN <<Call("g_object_unref(bus)", nb, "", 0)>> ELSE <<>>
  IN IF hit
       THEN [bus |-> cached, cache |-> cached, once |-> once, created |-> NULL,
             unrefs |-> <<>>, calls |-> t_init \o t_check]
       ELSE [bus     |-> IF rejected THEN NULL ELSE nb,
             cache   |-> IF rejected THEN NULL ELSE nb,
             once    |-> once,
             created |-> nb,
             unrefs  |-> daemon_stale(cached)
                         \o (IF rejected /\ nb # NULL THEN <<nb>> ELSE <<>>),
             calls   |-> t_init \o t_check \o t_stale \o t_new \o t_drop]

\* The effects of one ibus_dikt_daemon_get_bus call `r' on the state.
DaemonGetBusEffect(r, connected) ==
  /\ daemon_cache_hit(daemon_cached_bus) \/ bus_count < MaxBus
  /\ daemon_ibus_initialized' = IF r.once THEN 1 ELSE daemon_ibus_initialized
  /\ ibus_init_calls' = IF r.once THEN ibus_init_calls + 1 ELSE ibus_init_calls
  /\ daemon_cached_bus' = r.cache
  /\ IF r.created # NULL
       THEN /\ NewBus(r.created, connected, "daemon")
            /\ bus_checked' =
                 [b \in Buses |->
                    IF b = r.created THEN gboolean(connected)
                    ELSE IF b = daemon_cached_bus THEN gboolean(bus_connected[b])
                    ELSE bus_checked[b]]
       ELSE /\ UNCHANGED <<bus_count, bus_connected, bus_owner>>
            /\ bus_checked' = IF daemon_cached_bus # NULL
                                THEN Checked(daemon_cached_bus)
                                ELSE bus_checked
  /\ bus_unrefs' = UnrefAll(bus_unrefs, r.unrefs)
  /\ UNCHANGED <<cbt_vars, bfl_vars, bus_signal, fac_vars, quit_requested,
                 init_calls>>

\* Variant of daemon_name_rejected without the length test.
daemon_name_rejected_null_only(engine_name) == engine_name.null

\* `!engine_name || strlen(engine_name) == 0'
daemon_name_rejected(engine_name) == engine_name.null \/ strlen(engine_name) = 0

\* Variant of daemon_op_bus that uses the handle published by ibus_dikt_init.
daemon_op_bus_primary(r) == global_bus

\* `IBusBus *bus = ibus_dikt_daemon_get_bus();': the handle a daemon operation
\* works on is the one the accessor returned.
daemon_op_bus(r) == r.bus

ibus_dikt_daemon_set_global_engine(engine_name, new_ok, connected, set_result) ==
  IF daemon_name_rejected(engine_name)
    THEN /\ Observe("daemon_set_global_engine", engine_name, FALSE, <<>>, <<>>)
         /\ UNCHANGED <<cbt_vars, bfl_vars, dbc_vars, env_vars, init_calls>>
    ELSE LET r == ibus_dikt_daemon_get_bus(new_ok, connected)
         IN /\ DaemonGetBusEffect(r, connected)
            /\ Observe("daemon_set_global_engine", engine_name,
                       IF daemon_op_bus(r) = NULL THEN FALSE ELSE set_result,
                       r.calls \o
                       (IF daemon_op_bus(r) = NULL THEN <<>>
                        ELSE <<Call("ibus_bus_set_global_engine",
                                    daemon_op_bus(r),
                                    engine_name.chars, gboolean(set_result))>>),
                       <<>>)

ibus_dikt_daemon_get_global_engine_name(new_ok, connected, desc) ==
  LET r == ibus_dikt_daemon_get_bus(new_ok, connected)
  IN /\ DaemonGetBusEffect(r, connected)
     /\ Observe("daemon_get_global_engine_name", NullName,
                IF daemon_op_bus(r) = NULL THEN NullName ELSE desc_name(desc),
                r.calls \o
                (IF daemon_op_bus(r) = NULL THEN <<>>
                 ELSE desc_trace(daemon_op_bus(r), desc)),
                <<>>)

\* ------------------------------------------------------- specifications

InitOp ==
  \E ibus_mode, new_ok, connected, has_conn, factory_ok \in BOOLEAN :
  \E name_result \in NameResults :
    ibus_dikt_init(ibus_mode, new_ok, connected, has_conn, factory_ok, name_result)

CleanupOp == ibus_dikt_cleanup

SetGlobalEngine ==
  \E engine_name \in EngineNames : \E set_result \in BOOLEAN :
    ibus_dikt_set_global_engine(engine_name, set_result)

GetGlobalEngineName ==
  \E desc \in Descs : ibus_dikt_get_global_engine_name(desc)

DaemonSetGlobalEngine ==
  \E engine_name \in EngineNames : \E new_ok, connected, set_result \in BOOLEAN :
    ibus_dikt_daemon_set_global_engine(engine_name, new_ok, connected, set_result)

DaemonGetGlobalEngineName ==
  \E new_ok, connected \in BOOLEAN : \E desc \in Descs :
    ibus_dikt_daemon_get_global_engine_name(new_ok, connected, desc)

BusDisconnected == \E b \in Buses : bus_disconnected(b)

NextCBT == Install \/ KeyEvent \/ FocusIn \/ FocusOut \/ Reset \/ Enable \/ Disable

SpecCBT == Init /\ [][NextCBT]_vars

\* The lifecycle, the control surface and the daemon cache in one process.
Next ==
  \/ InitOp
  \/ CleanupOp
  \/ SetGlobalEngine
  \/ GetGlobalEngineName
  \/ DaemonSetGlobalEngine
  \/ DaemonGetGlobalEngineName
  \/ BusDisconnected

Spec == Init /\ [][Next]_vars

\* One process that installs callbacks and uses the lifecycle, the control
\* surface and the daemon cache.  The host installs one implementation in
\* all six slots, or clears them; the operations that create a bus stop at
\* MaxProcBus buses.
InstallTable ==
  \E ctx \in Ctxs \cup {NULL} : \E h \in Fns \cup {NULL} :
    ibus_dikt_set_callback(ctx, h, h, h, h, h, h)

ProcInit      == bus_count < MaxProcBus /\ InitOp
ProcDaemonSet == bus_count < MaxProcBus /\ DaemonSetGlobalEngine
ProcDaemonGet == bus_count < MaxProcBus /\ DaemonGetGlobalEngineName

NextProc ==
  \/ InstallTable
  \/ ProcInit
  \/ CleanupOp
  \/ SetGlobalEngine
  \/ GetGlobalEngineName
  \/ ProcDaemonSet
  \/ ProcDaemonGet
  \/ BusDisconnected

SpecProc == Init /\ [][NextProc]_vars

\* ------------------------------------------- install racing a dispatch
\* ibus_dikt_set_callback on the host's thread and
\* ibus_dikt_engine_process_key_event on the framework's thread, one memory
\* access per step.  Nothing orders the accesses of the two threads.

\* Variant of set_callback_store that keeps a cell that is already set.
set_callback_store_first_wins(table, k, args) ==
  IF table[k] # NULL THEN table ELSE [table EXCEPT ![k] = args[k]]

\* The k-th assignment of ibus_dikt_set_callback: `global_X = X' overwrites
\* cell k of the table with argument k.
set_callback_store(table, k, args) == [table EXCEPT ![k] = args[k]]

\* Cell 1 is global_context, cell 2 global_key_event_cb, ... cell 7
\* global_disable_cb, as in the parameter list.
StoreCells == 1..7

WriteTable(t) ==
  /\ global_context' = t[1]
  /\ global_key_event_cb' = t[2]
  /\ global_focus_in_cb' = t[3]
  /\ global_focus_out_cb' = t[4]
  /\ global_reset_cb' = t[5]
  /\ global_enable_cb' = t[6]
  /\ global_disable_cb' = t[7]

\* The observation variables after a step of SpecRace.
Record(o, a, r, iv) ==
  /\ op' = o
  /\ arg' = a
  /\ ret' = r
  /\ invoked' = iv
  /\ UNCHANGED <<calls, cleanup_streak, init_calls>>

\* The host calls ibus_dikt_set_callback: the call is numbered and its seven
\* stores are pending.
RaceInstallCall ==
  \E ctx \in Ctxs \cup {NULL} : \E h \in Fns \cup {NULL} :
    /\ race.i_todo = {}
    /\ race.gen < MaxRaceInstall
    /\ race' = [race EXCEPT !.i_todo = StoreCells,
                            !.i_args = <<ctx, h, h, h, h, h, h>>,
                            !.gen = @ + 1,
                            !.d_overlap = @ \/ race.d_pc # 0]
    /\ UNCHANGED <<cbt_vars, bfl_vars, dbc_vars, env_vars, obs_vars>>

\* One pending store becomes visible to the other thread.  The stores are
\* plain, so they may become visible in any order; the call returns after
\* the last one.
RaceInstallStore ==
  \E k \in race.i_todo :
    LET todo == race.i_todo \ {k}
    IN
    /\ WriteTable(set_callback_store(cbt_vars, k, race.i_args))
    /\ race' = [race EXCEPT !.i_todo = todo,
                            !.cell_gen[k] = race.gen,
                            !.last = IF todo = {} THEN race.i_args ELSE @,
                            !.i_args = IF todo = {} THEN <<>> ELSE @,
                            !.d_overlap = @ \/ race.d_pc # 0]
    /\ IF todo = {}
         THEN Record("set_callback", NullName, "void", <<>>)
         ELSE UNCHANGED obs_vars
    /\ UNCHANGED <<bfl_vars, dbc_vars, env_vars>>

\* The dispatch returns: its registers are dead.
RaceReturn(r, iv) ==
  /\ race' = [r EXCEPT !.d_pc = 0, !.d_arg = <<>>, !.d_cb = NULL,
                       !.d_ctx = NULL]
  /\ Record("process_key_event", r.d_arg, IF iv = <<>> THEN FALSE ELSE
              HostKeyEvent(iv[1].cb, iv[1].args[1], iv[1].args[2],
                           iv[1].args[3]), iv)

\* The framework calls process_key_event on its engine instance with a press
\* of the space key; the method loads global_key_event_cb for the first
\* operand of `global_key_event_cb && global_context'.
RaceDispatchTestCb ==
  \E engine \in {1} : \E ev \in {<<32, 57, 0>>} :
    LET r == [race EXCEPT !.d_arg = EventArg(engine, ev),
                          !.d_cb = global_key_event_cb,
                          !.d_gcb = race.cell_gen[2],
                          !.d_gctx = 0,
                          !.d_crash = FALSE,
                          !.d_overlap = race.i_todo # {}]
    IN
    /\ race.d_pc = 0
    /\ IF global_key_event_cb = NULL
         THEN RaceReturn(r, <<>>)
         ELSE /\ race' = [r EXCEPT !.d_pc = 1]
              /\ UNCHANGED obs_vars
    /\ UNCHANGED <<cbt_vars, bfl_vars, dbc_vars, env_vars>>

\* It loads global_context for the second operand.
RaceDispatchTestCtx ==
  LET r == [race EXCEPT !.d_ctx = global_context,
                        !.d_gctx = race.cell_gen[1]]
  IN
  /\ race.d_pc = 1
  /\ IF global_context = NULL
       THEN RaceReturn(r, <<>>)
       ELSE /\ race' = [r EXCEPT !.d_pc = 2]
            /\ UNCHANGED obs_vars
  /\ UNCHANGED <<cbt_vars, bfl_vars, dbc_vars, env_vars>>

\* `global_key_event_cb(global_context, ...)': the build may call through
\* the value it tested or load the pointer again.
RaceDispatchLoadCb ==
  \E reload \in BOOLEAN :
    /\ race.d_pc = 2
    /\ race' = [race EXCEPT
                  !.d_pc = 3,
                  !.d_cb = IF reload THEN global_key_event_cb ELSE @,
                  !.d_gcb = IF reload THEN race.cell_gen[2] ELSE @]
    /\ UNCHANGED <<cbt_vars, bfl_vars, dbc_vars, env_vars, obs_vars>>

\* Likewise for the context argument; then the call is made.  A call
\* through a pointer that was reloaded as NULL ends the process.
RaceDispatchCall ==
  \E reload \in BOOLEAN :
    LET r == [race EXCEPT
                !.d_ctx = IF reload THEN global_context ELSE @,
                !.d_gctx = IF reload THEN race.cell_gen[1] ELSE @]
    IN
    /\ race.d_pc = 3
    /\ IF r.d_cb = NULL
         THEN /\ race' = [r EXCEPT !.d_pc = 0, !.d_arg = <<>>, !.d_ctx = NULL,
                                   !.d_crash = TRUE]
              /\ Record("process_key_event", r.d_arg, FALSE, <<>>)
         ELSE RaceReturn(r, <<Invocation("key_event", r.d_cb, r.d_ctx,
                                         r.d_arg.engine,
                                         key_event_args(r.d_arg.args[1],
                                                        r.d_arg.args[2],
                                                        r.d_arg.args[3]))>>)
    /\ UNCHANGED <<cbt_vars, bfl_vars, dbc_vars, env_vars>>

NextRace ==
  \/ RaceInstallCall
  \/ RaceInstallStore
  \/ RaceDispatchTestCb
  \/ RaceDispatchTestCtx
  \/ RaceDispatchLoadCb
  \/ RaceDispatchCall

SpecRace == Init /\ [][NextRace]_vars

\* ------------------------------------------------------------ properties

DispatchOps == {"process_key_event", "focus_in", "focus_out", "reset",
                "enable", "disable"}
DaemonOps   == {"daemon_set_global_engine", "daemon_get_global_engine_name"}

\* The slot an engine event reads, and the name of that slot.
SlotOf(o) ==
  CASE o = "process_key_event" -> global_key_event_cb
    [] o = "focus_in"          -> global_focus_in_cb
    [] o = "focus_out"         -> global_focus_out_cb
    [] o = "reset"             -> global_reset_cb
    [] o = "enable"            -> global_enable_cb
    [] OTHER                   -> global_disable_cb

SlotName(o) == IF o = "process_key_event" THEN "key_event" ELSE o

\* Positions of the calls of `fn' in a call sequence; whether there is one;
\* whether one returned 0 (NULL, FALSE).
At(cs, fn)       == {i \in 1..Len(cs) : cs[i].fn = fn}
MadeIn(cs, fn)   == At(cs, fn) # {}
FailedIn(cs, fn) == \E i \in At(cs, fn) : cs[i].res = 0

\* C1: dispatching any of the six engine events invokes the event's slot
\* exactly once, with the stored context and the engine instance, when the
\* slot and the context are both non-null; otherwise no host callback is
\* invoked and process_key_event returns FALSE.  (The table is NULL in the
\* initial state, so this covers dispatch before any install.)
C1_Dispatch ==
  op \in DispatchOps =>
    IF SlotOf(op) # NULL /\ global_context # NULL
      THEN invoked = <<Invocation(SlotName(op), SlotOf(op), global_context,
                                  arg.engine, arg.args)>>
      ELSE /\ invoked = <<>>
           /\ calls = <<>>
           /\ (op = "process_key_event" => ret = FALSE)

C1_Witness ==
  /\ op = "process_key_event"
  /\ global_key_event_cb # NULL
  /\ global_context = NULL
  /\ invoked = <<>>

\* C2: init returns 1, 2, 3, 4 for the first failing step among bus creation,
\* connectivity check, transport lookup, factory creation, in that order, and
\* 0 exactly when all four steps were made and none failed, in both modes.
C2_InitCode ==
  op = "init" =>
    LET f1 == FailedIn(calls, "ibus_bus_new")
        f2 == FailedIn(calls, "ibus_bus_is_connected")
        f3 == FailedIn(calls, "ibus_bus_get_connection")
        f4 == FailedIn(calls, "ibus_factory_new")
    IN /\ ret \in 0..4
       /\ (ret = 1) <=> f1
       /\ (ret = 2) <=> (~f1 /\ f2)
       /\ (ret = 3) <=> (~f1 /\ ~f2 /\ f3)
       /\ (ret = 4) <=> (~f1 /\ ~f2 /\ ~f3 /\ f4)
       /\ (ret = 0) <=> (/\ ~f1 /\ ~f2 /\ ~f3 /\ ~f4
                         /\ MadeIn(calls, "ibus_bus_new")
                         /\ MadeIn(calls, "ibus_bus_is_connected")
                         /\ MadeIn(calls, "ibus_bus_get_connection")
                         /\ MadeIn(calls, "ibus_factory_new"))

C2_Witness == op = "init" /\ ret = 3 /\ ~arg.ibus_mode

\* C3: a cleanup made while the handles of a successful init are published
\* releases that bus and that factory once each and nulls both references;
\* from then until an init succeeds, set_global_engine returns FALSE and
\* get_global_engine_name returns NULL and neither issues a framework call.
C3_CleanupThenNothing ==
  [][ /\ (op' = "cleanup" /\ global_bus # NULL /\ global_factory # NULL) =>
           /\ global_bus' = NULL
           /\ global_factory' = NULL
           /\ bus_unrefs' = [bus_unrefs EXCEPT ![global_bus] = @ + 1]
           /\ factory_unrefs' = [factory_unrefs EXCEPT ![global_factory] = @ + 1]
      /\ (op' = "cleanup") => (global_bus' = NULL /\ global_factory' = NULL)
      /\ (global_bus = NULL /\ op' = "set_global_engine") =>
           (ret' = FALSE /\ calls' = <<>> /\ global_bus' = NULL)
      /\ (global_bus = NULL /\ op' = "get_global_engine_name") =>
           (ret' = NullName /\ calls' = <<>> /\ global_bus' = NULL)
      /\ (global_bus = NULL /\ global_bus' # NULL) => (op' = "init" /\ ret' = 0)
    ]_vars

C3_Witness ==
  /\ op = "set_global_engine"
  /\ arg = Str("dikt")
  /\ global_bus = NULL
  /\ \E b \in 1..bus_count : bus_signal[b] /\ bus_unrefs[b] = 1
  /\ ret = FALSE

\* C4: a cleanup that directly follows a cleanup, and a cleanup made while no
\* handle is published (init never succeeded), releases nothing and changes
\* no state; over the pair of calls every published handle is released once.
C4_CleanupIdempotent ==
  [][ (op' = "cleanup") =>
        /\ (cleanup_streak >= 1 \/ factory_count = 0 \/
            (global_bus = NULL /\ global_factory = NULL)) =>
              /\ calls' = <<>>
              /\ UNCHANGED <<cbt_vars, bfl_vars, dbc_vars, env_vars>>
        /\ (cleanup_streak = 0 /\ global_bus # NULL /\ global_factory # NULL) =>
              /\ calls' = <<Call("g_object_unref(factory)", global_factory, "", 0),
                            Call("g_object_unref(bus)", global_bus, "", 0)>>
              /\ bus_unrefs'[global_bus] = 1
              /\ factory_unrefs'[global_factory] = 1
    ]_vars

C4_Witness ==
  /\ op = "cleanup"
  /\ cleanup_streak = 2
  /\ factory_count >= 1
  /\ factory_unrefs[factory_count] = 1
  /\ bus_unrefs[factory_bus[factory_count]] = 1

\* C5: set_global_engine called with a null or an empty name returns FALSE
\* and issues no framework call (neither the connectivity query nor the
\* set-global-engine call), in every state.
C5_EmptyNameRejected ==
  (op = "set_global_engine" /\ (arg.null \/ strlen(arg) = 0)) =>
    (ret = FALSE /\ calls = <<>>)

\* C6: daemon_set_global_engine with a null or empty name returns FALSE,
\* issues no framework call and leaves the latch, the cache and every
\* framework object as they were.
C6_DaemonEmptyName ==
  [][ (op' = "daemon_set_global_engine" /\ (arg'.null \/ strlen(arg') = 0)) =>
        /\ ret' = FALSE
        /\ calls' = <<>>
        /\ UNCHANGED <<dbc_vars, bfl_vars, env_vars>>
    ]_vars

C6_Witness ==
  /\ op = "daemon_set_global_engine"
  /\ arg = Str("")
  /\ daemon_ibus_initialized = 0
  /\ ret = FALSE

\* Daemon buses that were created and not released.
LiveDaemonBuses ==
  {b \in 1..bus_count : bus_owner[b] = "daemon" /\ bus_unrefs[b] = 0}

\* A daemon operation that reached ibus_dikt_daemon_get_bus.
DaemonLookup(o, a) ==
  \/ o = "daemon_get_global_engine_name"
  \/ o = "daemon_set_global_engine" /\ ~a.null /\ strlen(a) > 0

\* The framework call a daemon operation forwards to.
Forwarded(cs) ==
  At(cs, "ibus_bus_set_global_engine") \cup At(cs, "ibus_bus_get_global_engine")

\* C7: a daemon operation that finds the cached bus connected reuses it: it
\* creates no bus, releases no bus, keeps the cache and forwards to the
\* cached handle.
C7_CacheReuse ==
  [][ (/\ DaemonLookup(op', arg')
       /\ daemon_cached_bus # NULL
       /\ bus_connected[daemon_cached_bus]) =>
        /\ daemon_cached_bus' = daemon_cached_bus
        /\ ~MadeIn(calls', "ibus_bus_new")
        /\ ~MadeIn(calls', "g_object_unref(bus)")
        /\ bus_count' = bus_count
        /\ bus_unrefs' = bus_unrefs
        /\ Forwarded(calls') # {}
        /\ \A i \in Forwarded(calls') : calls'[i].obj = daemon_cached_bus
    ]_vars

C7_Witness ==
  /\ op = "daemon_get_global_engine_name"
  /\ daemon_cached_bus # NULL
  /\ ~MadeIn(calls, "ibus_bus_new")
  /\ MadeIn(calls, "ibus_bus_get_global_engine")
  /\ ret = Str("xkb:us::eng")

\* C8: never more than one daemon bus is live, and no daemon bus is released
\* twice; a daemon operation that finds the cached bus disconnected releases
\* it once, before it creates a bus, and if the new bus is connected it
\* becomes the cache and the operation is forwarded to it and returns the
\* framework's answer.
C8_SingleDaemonBus ==
  [][ /\ Cardinality(LiveDaemonBuses') <= 1
      /\ LiveDaemonBuses' \subseteq {daemon_cached_bus'}
      /\ \A b \in Buses : bus_owner'[b] = "daemon" => bus_unrefs'[b] <= 1
      /\ (/\ DaemonLookup(op', arg')
          /\ daemon_cached_bus # NULL
          /\ ~bus_connected[daemon_cached_bus]) =>
           /\ bus_unrefs'[daemon_cached_bus] = bus_unrefs[daemon_cached_bus] + 1
           /\ \E i \in At(calls', "g_object_unref(bus)") :
                /\ calls'[i].obj = daemon_cached_bus
                /\ \A j \in At(calls', "ibus_bus_new") : i < j
           /\ At(calls', "ibus_bus_new") # {}
           /\ \A j \in At(calls', "ibus_bus_new") :
                (calls'[j].res # NULL /\ calls'[j + 1].res = 1) =>
                   /\ daemon_cached_bus' = calls'[j].res
                   /\ daemon_cached_bus' # daemon_cached_bus
                   /\ Forwarded(calls') # {}
                   /\ \A i \in Forwarded(calls') :
                        /\ calls'[i].obj = calls'[j].res
                        /\ (op' = "daemon_set_global_engine" =>
                              ret' = (calls'[i].res = 1))
    ]_vars

C8_Witness ==
  /\ op = "daemon_set_global_engine"
  /\ arg = Str("dikt")
  /\ ret = TRUE
  /\ MadeIn(calls, "g_object_unref(bus)")
  /\ MadeIn(calls, "ibus_bus_new")
  /\ daemon_cached_bus # NULL

\* A daemon operation whose bus creation failed or gave a disconnected bus.
CannotOpen(cs) ==
  \E j \in At(cs, "ibus_bus_new") : cs[j].res = NULL \/ cs[j + 1].res = 0

\* C9: a daemon operation that cannot open a bus returns FALSE / NULL, leaves
\* the cache NULL and no daemon bus live; a daemon operation that starts
\* with a NULL cache calls ibus_bus_new; and the cache is always NULL or a
\* handle whose last connectivity query answered TRUE.
C9_DaemonMiss ==
  [][ /\ (op' \in DaemonOps /\ CannotOpen(calls')) =>
           /\ (op' = "daemon_set_global_engine" => ret' = FALSE)
           /\ (op' = "daemon_get_global_engine_name" => ret' = NullName)
           /\ Forwarded(calls') = {}
           /\ daemon_cached_bus' = NULL
           /\ LiveDaemonBuses' = {}
      /\ (DaemonLookup(op', arg') /\ daemon_cached_bus = NULL) =>
           MadeIn(calls', "ibus_bus_new")
      /\ daemon_cached_bus' # NULL => bus_checked'[daemon_cached_bus'] = 1
    ]_vars

C9_Witness ==
  /\ op = "daemon_get_global_engine_name"
  /\ daemon_cached_bus = NULL
  /\ \E j \in At(calls, "ibus_bus_new") :
       /\ calls[j].res # NULL
       /\ bus_unrefs[calls[j].res] = 1
  /\ \E i \in At(calls, "ibus_bus_is_connected") : calls[i].res = 0
  /\ ret = NullName

\* C10 (as stated): ibus_init() is called at most once in one process.
C10_InitializerOnce == ibus_init_calls <= 1

\* C10 (amended): the latch lets the daemon operations call ibus_init() once
\* in total, and every ibus_dikt_init call calls it once more.
C10_InitializerCount ==
  /\ daemon_ibus_initialized \in {0, 1}
  /\ ibus_init_calls = init_calls + daemon_ibus_initialized

C10_Witness ==
  /\ init_calls = 2
  /\ daemon_ibus_initialized = 1
  /\ ibus_init_calls = 3
  /\ op \in DaemonOps
  /\ MadeIn(calls, "ibus_bus_is_connected")
  /\ ~MadeIn(calls, "ibus_init")

\* C11: between operations the process-wide bus handle is non-null exactly
\* when the process-wide factory handle is: init publishes both or neither,
\* cleanup nulls both, and no other operation writes either.
C11_HandlesTogether ==
  /\ (global_bus # NULL) <=> (global_factory # NULL)
  /\ global_factory # NULL => factory_bus[global_factory] = global_bus

C11_Witness ==
  /\ op = "init"
  /\ ret = 4
  /\ global_bus # NULL
  /\ global_factory # NULL
  /\ bus_count > global_bus

\* C12: in ManagedByIBus mode a name request answered with anything but
\* PRIMARY (1) or REPLACED (2) makes init print a warning and nothing else:
\* it returns 0, the new bus and factory are published and "dikt" is
\* registered in the factory, as for an accepted answer, which prints nothing.
C12_NameAnomaly ==
  (op = "init" /\ MadeIn(calls, "ibus_bus_request_name")) =>
    /\ arg.ibus_mode
    /\ ret = 0
    /\ global_bus = bus_count
    /\ global_factory = factory_count
    /\ \E i \in At(calls, "ibus_factory_add_engine") :
         calls[i].obj = global_factory /\ calls[i].arg = "dikt"
    /\ \A i \in At(calls, "ibus_bus_request_name") :
         (calls[i].res \notin {1, 2}) <=>
           (\E j \in At(calls, "fprintf(stderr)") :
              j = i + 1 /\ calls[j].arg = "Warning: Failed to acquire IBus name")
    /\ Cardinality(At(calls, "fprintf(stderr)")) <= 1

C12_Witness ==
  /\ op = "init"
  /\ arg.ibus_mode
  /\ \E i \in At(calls, "ibus_bus_request_name") : calls[i].res = 3
  /\ MadeIn(calls, "fprintf(stderr)")
  /\ ret = 0
  /\ global_bus = bus_count

\* C13: when a bus published by init disconnects, the handler calls
\* ibus_quit() and nothing else: no handle is released and neither
\* process-wide reference changes; while the published bus is disconnected,
\* set_global_engine returns FALSE and get_global_engine_name returns NULL
\* and neither forwards to the bus.
C13_Disconnect ==
  [][ /\ (op' = "disconnected" /\ global_bus # NULL
            /\ bus_connected[global_bus] /\ ~bus_connected'[global_bus]) =>
           /\ calls' = <<Call("ibus_quit", NULL, "", 0)>>
           /\ quit_requested'
           /\ UNCHANGED <<bfl_vars, dbc_vars, bus_unrefs, factory_unrefs,
                          bus_count, factory_count, bus_signal>>
      /\ (op' = "disconnected") =>
           UNCHANGED <<bfl_vars, dbc_vars, bus_unrefs, factory_unrefs>>
      /\ (global_bus # NULL /\ ~bus_connected[global_bus]
            /\ op' = "set_global_engine") =>
           /\ ret' = FALSE
           /\ Forwarded(calls') = {}
           /\ UNCHANGED bfl_vars
      /\ (global_bus # NULL /\ ~bus_connected[global_bus]
            /\ op' = "get_global_engine_name") =>
           /\ ret' = NullName
           /\ Forwarded(calls') = {}
           /\ UNCHANGED bfl_vars
    ]_vars

C13_Witness ==
  /\ op = "set_global_engine"
  /\ arg = Str("dikt")
  /\ quit_requested
  /\ global_bus # NULL
  /\ ~bus_connected[global_bus]
  /\ bus_unrefs[global_bus] = 0
  /\ ret = FALSE

\* C14: with a context and a key_event callback installed, process_key_event
\* hands keyval, keycode and modifiers to the callback unchanged and returns
\* the callback's boolean: for the callback that consumes the space key only,
\* (0x20, 57, 0) gives TRUE and (0x41, 38, 0) gives FALSE.
C14_KeyForwarding ==
  (op = "process_key_event" /\ global_key_event_cb # NULL
     /\ global_context # NULL) =>
    /\ Len(invoked) = 1
    /\ invoked[1].cb = global_key_event_cb
    /\ invoked[1].args = arg.args
    /\ ret = HostKeyEvent(global_key_event_cb,
                          arg.args[1], arg.args[2], arg.args[3])
    /\ (global_key_event_cb = 1 /\ arg.args = <<32, 57, 0>>) => (ret = TRUE)
    /\ (global_key_event_cb = 1 /\ arg.args = <<65, 38, 0>>) => (ret = FALSE)

C14_Witness ==
  /\ op = "process_key_event"
  /\ global_key_event_cb = 1
  /\ global_context # NULL
  /\ arg.args = <<65, 38, 0>>
  /\ invoked # <<>>
  /\ ret = FALSE

\* The number of calls of `fn' in a call sequence, and the position of the
\* only one.
Count(cs, fn) == Cardinality(At(cs, fn))
Only(cs, fn)  == CHOOSE i \in At(cs, fn) : TRUE

\* C15: a successful init takes exactly one of the two registration branches.
\* SelfRegistered: one component "org.freedesktop.IBus.Dikt" is created, one
\* engine descriptor (name "dikt", language "other") is attached to it, the
\* component is registered with the new bus and then released, and no name
\* is requested.  ManagedByIBus: the name "org.freedesktop.IBus.Dikt" is
\* requested once on the new bus and no component is created or registered.
\* A failed init takes neither branch.
C15_ModeBranches ==
  op = "init" =>
    LET n_name == Count(calls, "ibus_bus_request_name")
        n_comp == Count(calls, "ibus_component_new")
        n_desc == Count(calls, "ibus_engine_desc_new")
        n_add  == Count(calls, "ibus_component_add_engine")
        n_reg  == Count(calls, "ibus_bus_register_component")
        n_rel  == Count(calls, "g_object_unref(component)")
    IN IF ret # 0
         THEN n_name + n_comp + n_desc + n_add + n_reg + n_rel = 0
         ELSE IF arg.ibus_mode
           THEN /\ n_name = 1
                /\ calls[Only(calls, "ibus_bus_request_name")].arg
                     = "org.freedesktop.IBus.Dikt"
                /\ calls[Only(calls, "ibus_bus_request_name")].obj = global_bus
                /\ n_comp + n_desc + n_add + n_reg + n_rel = 0
           ELSE /\ n_name = 0
                /\ n_comp = 1 /\ n_desc = 1 /\ n_add = 1 /\ n_reg = 1 /\ n_rel = 1
                /\ calls[Only(calls, "ibus_component_new")].arg
                     = "org.freedesktop.IBus.Dikt"
                /\ calls[Only(calls, "ibus_engine_desc_new")].arg = "dikt"
                /\ calls[Only(calls, "ibus_engine_desc_new")].more[3] = "other"
                /\ calls[Only(calls, "ibus_bus_register_component")].obj
                     = global_bus
                /\ calls[Only(calls, "ibus_component_add_engine")].obj
                     = calls[Only(calls, "ibus_component_new")].res
                /\ Only(calls, "ibus_component_new")
                     < Only(calls, "ibus_component_add_engine")
                /\ Only(calls, "ibus_component_add_engine")
                     < Only(calls, "ibus_bus_register_component")
                /\ Only(calls, "ibus_bus_register_component")
                     < Only(calls, "g_object_unref(component)")
                /\ calls[Only(calls, "g_object_unref(component)")].obj
                     = calls[Only(calls, "ibus_component_new")].res

C15_Witness ==
  /\ op = "init"
  /\ ret = 0
  /\ ~arg.ibus_mode
  /\ Count(calls, "ibus_bus_register_component") = 1
  /\ Count(calls, "g_object_unref(component)") = 1

\* The calls of the two registration branches.
ModeBranchCalls(cs) ==
  At(cs, "ibus_bus_request_name") \cup At(cs, "ibus_component_new")
    \cup At(cs, "ibus_engine_desc_new") \cup At(cs, "ibus_component_add_engine")
    \cup At(cs, "ibus_bus_register_component")
    \cup At(cs, "g_object_unref(component)")

\* C16: a successful init performs, in this order: ibus_init, bus creation,
\* connectivity check, transport lookup, factory creation, subscription to
\* "disconnected", registration of "dikt" in the factory, publication of the
\* bus and factory handles, and only then the calls of the mode branch.
C16_InitOrder ==
  (op = "init" /\ ret = 0) =>
    /\ Len(calls) > 9
    /\ [i \in 1..9 |-> calls[i].fn] =
         <<"ibus_init", "ibus_bus_new", "ibus_bus_is_connected",
           "ibus_bus_get_connection", "ibus_factory_new", "g_signal_connect",
           "ibus_factory_add_engine", "global_bus =", "global_factory =">>
    /\ calls[6].obj = global_bus /\ calls[6].arg = "disconnected"
    /\ calls[7].obj = global_factory /\ calls[7].arg = "dikt"
    /\ calls[8].obj = global_bus
    /\ calls[9].obj = global_factory
    /\ ModeBranchCalls(calls) # {}
    /\ \A i \in ModeBranchCalls(calls) : i > 9
    /\ bus_signal[global_bus]

C16_Witness ==
  /\ op = "init"
  /\ ret = 0
  /\ arg.ibus_mode
  /\ Len(calls) = 10
  /\ calls[10].fn = "ibus_bus_request_name"
  /\ calls[10].res = 1

\* C17: an init call that returns 1..4 leaves global_bus and global_factory
\* as they were, leaves no "disconnected" subscription and no factory behind,
\* registers no engine and requests no name, and releases the bus it created
\* exactly once (codes 2, 3, 4; code 1 created none) while releasing no other.
C17_FailedInitFrame ==
  [][(op' = "init" /\ ret' \in 1..4) =>
       /\ UNCHANGED <<global_bus, global_factory>>
       /\ UNCHANGED <<bus_signal, factory_count, factory_bus, factory_unrefs>>
       /\ ~MadeIn(calls', "g_signal_connect")
       /\ ~MadeIn(calls', "ibus_factory_add_engine")
       /\ ModeBranchCalls(calls') = {}
       /\ ret' = 1 => /\ bus_count' = bus_count
                      /\ bus_unrefs' = bus_unrefs
                      /\ ~MadeIn(calls', "g_object_unref(bus)")
       /\ ret' \in 2..4 =>
            /\ bus_count' = bus_count + 1
            /\ bus_unrefs'[bus_count'] = 1
            /\ \A b \in 1..bus_count : bus_unrefs'[b] = bus_unrefs[b]
            /\ Count(calls', "g_object_unref(bus)") = 1
            /\ calls'[Only(calls', "g_object_unref(bus)")].obj = bus_count'
            /\ calls'[Len(calls')].fn = "g_object_unref(bus)"
    ]_vars

\* A failed factory creation after an earlier successful init: the earlier
\* handles are still published and the new bus has been released.
C17_Witness ==
  /\ op = "init"
  /\ ret = 4
  /\ global_bus # NULL
  /\ global_bus # bus_count
  /\ bus_unrefs[bus_count] = 1
  /\ bus_unrefs[global_bus] = 0
  /\ ~bus_signal[bus_count]

\* C18: whenever the last operation is cleanup, every bus and every factory
\* that a successful init created has been released exactly once.
C18_NoLeak ==
  op = "cleanup" =>
    /\ \A b \in 1..bus_count :
         (bus_owner[b] = "init" /\ bus_signal[b]) => bus_unrefs[b] = 1
    /\ \A f \in 1..factory_count : factory_unrefs[f] = 1

LifecycleOps == {"init", "cleanup", "set_global_engine",
                 "get_global_engine_name"}
ControlOps   == {"set_global_engine", "get_global_engine_name"} \cup DaemonOps

\* The bus handles the framework calls of one operation were made on.
BusCallFns == {"ibus_bus_is_connected", "ibus_bus_get_connection",
               "g_signal_connect", "ibus_bus_request_name",
               "ibus_bus_register_component", "ibus_bus_set_global_engine",
               "ibus_bus_get_global_engine", "g_object_unref(bus)",
               "global_bus ="}
OnBus(cs) == {cs[i].obj : i \in {j \in 1..Len(cs) : cs[j].fn \in BusCallFns}}

\* C19: a daemon operation leaves global_bus and global_factory unchanged,
\* touches only buses the daemon accessor created and forwards exactly when
\* the accessor can produce a connected bus, whatever init and cleanup did;
\* init, cleanup, set_global_engine and get_global_engine_name leave the
\* latch and the cached daemon handle unchanged and touch no bus the accessor
\* created; install and the four control-surface operations leave global_bus
\* and global_factory unchanged.
C19_Independence ==
  [][/\ op' \in DaemonOps =>
          /\ UNCHANGED <<bfl_vars, fac_vars, bus_signal>>
          /\ \A b \in OnBus(calls') : bus_owner'[b] = "daemon"
          /\ \A b \in 1..bus_count :
               bus_owner[b] = "init" =>
                 /\ bus_unrefs'[b] = bus_unrefs[b]
                 /\ bus_checked'[b] = bus_checked[b]
          /\ DaemonLookup(op', arg') =>
               /\ (Forwarded(calls') # {}) <=> ~CannotOpen(calls')
               /\ \A i \in Forwarded(calls') :
                    calls'[i].obj = daemon_cached_bus'
     /\ op' \in LifecycleOps =>
          /\ UNCHANGED dbc_vars
          /\ \A b \in OnBus(calls') : bus_owner'[b] = "init"
          /\ \A b \in 1..bus_count :
               bus_owner[b] = "daemon" =>
                 /\ bus_unrefs'[b] = bus_unrefs[b]
                 /\ bus_checked'[b] = bus_checked[b]
                 /\ ~bus_signal'[b]
     /\ op' \in {"set_callback"} \cup ControlOps => UNCHANGED bfl_vars
    ]_vars

\* A daemon operation succeeds on its own bus while init's handles are
\* published and a callback table is installed.
C19_Witness ==
  /\ op = "daemon_set_global_engine"
  /\ ret = TRUE
  /\ global_bus # NULL
  /\ global_factory # NULL
  /\ daemon_cached_bus # NULL
  /\ daemon_cached_bus # global_bus
  /\ global_context # NULL
  /\ global_key_event_cb # NULL
  /\ \E i \in Forwarded(calls) : calls[i].obj = daemon_cached_bus

\* C20: ibus_dikt_set_callback changes the table one cell per step (seven
\* separate stores); once a call has returned and no other is running the
\* seven cells hold the seven arguments of that call (last write wins); and
\* a key-event dispatch during which no install ran invokes the callback and
\* the context of the last completed install, both written by one call, or
\* invokes nothing and returns FALSE when either of them is NULL.
C20_LastWriteWins ==
  [][/\ Cardinality({k \in StoreCells : cbt_vars'[k] # cbt_vars[k]}) <= 1
     /\ race'.i_todo = {} => cbt_vars' = race'.last
     /\ (op' = "process_key_event" /\ race'.d_pc = 0 /\ ~race'.d_overlap) =>
          /\ ~race'.d_crash
          /\ IF SlotFires(race'.last[2], race'.last[1])
               THEN /\ invoked' = <<Invocation("key_event", race'.last[2],
                                               race'.last[1], arg'.engine,
                                               arg'.args)>>
                    /\ race'.d_gcb = race'.d_gctx
               ELSE /\ invoked' = <<>>
                    /\ ret' = FALSE
    ]_vars

\* A torn dispatch: the context passed was written by the latest install,
\* the callback invoked by the install before, and that callback is not the
\* one the latest install passed.
C20_Witness ==
  /\ op = "process_key_event"
  /\ race.d_pc = 0
  /\ race.d_overlap
  /\ race.i_todo = {}
  /\ Len(invoked) = 1
  /\ race.d_gctx = race.gen
  /\ race.d_gcb = race.gen - 1
  /\ race.d_gcb >= 1
  /\ invoked[1].ctx = race.last[1]
  /\ invoked[1].cb # race.last[2]

====
